---------------------------- MODULE Spec2Model ----------------------------
(***************************************************************************)
(* Model of visual_inspection.py: the annotation parser parse_annotations  *)
(* and the event handlers of BoundingBoxViewerApp.                         *)
(*                                                                         *)
(* Python floats are IEEE-754 binary64 values.  They are modelled exactly: *)
(* a float is sgn * man * 2^exp with a 53-bit mantissa kept as a sequence  *)
(* of 15-bit limbs, and every arithmetic operation rounds to nearest, ties *)
(* to even, as the hardware does.                                          *)
(***************************************************************************)
EXTENDS Integers, Sequences, FiniteSets, TLC

(***************************************************************************)
(* Natural numbers of arbitrary size: little-endian sequences of limbs,    *)
(* no leading zero limb; <<>> is 0.                                        *)
(***************************************************************************)
LimbBits == 15
LimbBase == 32768
MantBits == 53

RECURSIVE Pow2(_)
Pow2(n) == IF n = 0 THEN 1 ELSE 2 * Pow2(n - 1)

RECURSIVE BNorm(_)
BNorm(a) ==
    IF a = <<>> THEN <<>>
    ELSE IF a[Len(a)] = 0 THEN BNorm(SubSeq(a, 1, Len(a) - 1))
    ELSE a

RECURSIVE BFromInt(_)
BFromInt(n) ==
    IF n = 0 THEN <<>> ELSE <<n % LimbBase>> \o BFromInt(n \div LimbBase)

RECURSIVE BToInt(_)
BToInt(a) ==
    IF a = <<>> THEN 0 ELSE a[1] + LimbBase * BToInt(Tail(a))

BLimb(a, i) == IF i >= 1 /\ i <= Len(a) THEN a[i] ELSE 0

RECURSIVE BAddC(_, _, _, _)
BAddC(a, b, i, c) ==
    IF i > Len(a) /\ i > Len(b)
    THEN (IF c = 0 THEN <<>> ELSE <<c>>)
    ELSE LET s == BLimb(a, i) + BLimb(b, i) + c
         IN  <<s % LimbBase>> \o BAddC(a, b, i + 1, s \div LimbBase)

BAdd(a, b) == BAddC(a, b, 1, 0)

\* a - b for a >= b
RECURSIVE BSubC(_, _, _, _)
BSubC(a, b, i, c) ==
    IF i > Len(a) THEN <<>>
    ELSE LET s == BLimb(a, i) - BLimb(b, i) - c
         IN  IF s < 0 THEN <<s + LimbBase>> \o BSubC(a, b, i + 1, 1)
             ELSE <<s>> \o BSubC(a, b, i + 1, 0)

BSub(a, b) == BNorm(BSubC(a, b, 1, 0))

\* -1, 0, 1 as a < b, a = b, a > b (both normalised)
RECURSIVE BCmpAt(_, _, _)
BCmpAt(a, b, i) ==
    IF i = 0 THEN 0
    ELSE IF a[i] < b[i] THEN -1
    ELSE IF a[i] > b[i] THEN 1
    ELSE BCmpAt(a, b, i - 1)

BCmp(a, b) ==
    IF Len(a) < Len(b) THEN -1
    ELSE IF Len(a) > Len(b) THEN 1
    ELSE BCmpAt(a, b, Len(a))

\* a * k for a limb k
RECURSIVE BMulLimbC(_, _, _, _)
BMulLimbC(a, k, i, c) ==
    IF i > Len(a) THEN (IF c = 0 THEN <<>> ELSE <<c>>)
    ELSE LET p == a[i] * k + c
         IN  <<p % LimbBase>> \o BMulLimbC(a, k, i + 1, p \div LimbBase)

BMulLimb(a, k) == IF k = 0 THEN <<>> ELSE BMulLimbC(a, k, 1, 0)

RECURSIVE BMul(_, _)
BMul(a, b) ==
    IF b = <<>> \/ a = <<>> THEN <<>>
    ELSE LET rest == BMul(a, Tail(b))
         IN  BAdd(BMulLimb(a, b[1]), IF rest = <<>> THEN <<>> ELSE <<0>> \o rest)

RECURSIVE TopBits(_)
TopBits(n) == IF n = 0 THEN 0 ELSE 1 + TopBits(n \div 2)

BBitLen(a) ==
    IF a = <<>> THEN 0 ELSE LimbBits * (Len(a) - 1) + TopBits(a[Len(a)])

RECURSIVE BShlLimbs(_, _)
BShlLimbs(a, n) == IF n = 0 \/ a = <<>> THEN a ELSE <<0>> \o BShlLimbs(a, n - 1)

BShl(a, n) == BShlLimbs(BMulLimb(a, Pow2(n % LimbBits)), n \div LimbBits)

\* floor(a / 2^n)
RECURSIVE BShrBits(_, _, _)
BShrBits(a, n, i) ==
    IF i > Len(a) THEN <<>>
    ELSE <<(a[i] \div Pow2(n)) + (BLimb(a, i + 1) % Pow2(n)) * Pow2(LimbBits - n)>>
         \o BShrBits(a, n, i + 1)

BShr(a, n) ==
    LET k == n \div LimbBits
        d == IF k >= Len(a) THEN <<>> ELSE SubSeq(a, k + 1, Len(a))
    IN  BNorm(BShrBits(d, n % LimbBits, 1))

BIsOdd(a) == a /= <<>> /\ a[1] % 2 = 1

\* one limb of a quotient: floor(r / b) for r < b * LimbBase, b of DivLimbs
\* limbs with its top limb >= LimbBase / 2.  The estimate from the two top
\* limbs of r is at most 2 too large (Knuth, TAOCP 4.3.1 D).
DivLimbs == 4

DivDigitFrom(r, b, c0) ==
    IF BCmp(BMulLimb(b, c0), r) <= 0 THEN c0
    ELSE IF BCmp(BMulLimb(b, c0 - 1), r) <= 0 THEN c0 - 1
    ELSE c0 - 2

DivEstimate(top, b) ==
    IF top \div b[DivLimbs] > LimbBase - 1 THEN LimbBase - 1 ELSE top \div b[DivLimbs]

DivDigit(r, b) ==
    DivDigitFrom(r, b, DivEstimate(BLimb(r, DivLimbs + 1) * LimbBase + BLimb(r, DivLimbs), b))

\* n further limbs of the quotient of r / b, r < b: <<quotient, remainder>>
RECURSIVE BDivLimbs(_, _, _, _)
BDivWith(b, n, q, r2, d) ==
    BDivLimbs(b, n - 1, IF q = <<>> /\ d = 0 THEN <<>> ELSE <<d>> \o q,
              BSub(r2, BMulLimb(b, d)))

BDivShifted(b, n, q, r2) == BDivWith(b, n, q, r2, DivDigit(r2, b))

BDivLimbs(b, n, q, r) ==
    IF n = 0 THEN <<q, r>>
    ELSE BDivShifted(b, n, q, IF r = <<>> THEN <<>> ELSE <<0>> \o r)

(***************************************************************************)
(* Python float: IEEE-754 binary64, value sgn * man * 2^exp, man a 53-bit  *)
(* natural (2^52 <= man < 2^53) or <<>> for zero.  Subnormals, infinities  *)
(* and NaN lie outside the magnitudes the model reaches.                   *)
(***************************************************************************)
FZero == [sgn |-> 1, man |-> <<>>, exp |-> 0]

FIsZero(a) == a.man = <<>>

\* the binary64 nearest to sgn * (q + f) * 2^e, 0 <= f < 1, sticky <=> f > 0;
\* round to nearest, ties to even
FRoundPack(sgn, m2, e) ==
    IF BBitLen(m2) > MantBits
    THEN [sgn |-> sgn, man |-> BShr(m2, 1), exp |-> e + 1]
    ELSE [sgn |-> sgn, man |-> m2, exp |-> e]

\* c: the discarded bits compared with one half
FRoundUp(sgn, m, c, sticky, e) ==
    FRoundPack(sgn,
               IF c > 0 \/ (c = 0 /\ (sticky \/ BIsOdd(m))) THEN BAdd(m, <<1>>) ELSE m,
               e)

\* m: q without its s low bits
FRoundCut(sgn, q, sticky, e, s, m) ==
    FRoundUp(sgn, m, BCmp(BSub(q, BShl(m, s)), BShl(<<1>>, s - 1)), sticky, e + s)

\* L: the bit length of q
FRoundLen(sgn, q, sticky, e, L) ==
    IF L <= MantBits
    THEN [sgn |-> sgn, man |-> BShl(q, MantBits - L), exp |-> e - (MantBits - L)]
    ELSE FRoundCut(sgn, q, sticky, e, L - MantBits, BShr(q, L - MantBits))

FRound(sgn, q, sticky, e) ==
    IF q = <<>> THEN FZero ELSE FRoundLen(sgn, q, sticky, e, BBitLen(q))

FFromInt(n) ==
    IF n < 0 THEN FRound(-1, BFromInt(-n), FALSE, 0)
    ELSE FRound(1, BFromInt(n), FALSE, 0)

FNeg(a) == IF FIsZero(a) THEN a ELSE [a EXCEPT !.sgn = -a.sgn]

FAbs(a) == [a EXCEPT !.sgn = 1]

FMul(a, b) ==
    IF FIsZero(a) \/ FIsZero(b) THEN FZero
    ELSE FRound(a.sgn * b.sgn, BMul(a.man, b.man), FALSE, a.exp + b.exp)

\* a / b for b /= 0: the mantissas, shifted to fill DivLimbs limbs, are
\* divided to DivLimbs limbs below the binary point, then rounded once
NormShift == 7
GuardBits == 60

FDivRound(sgn, dm, e) == FRound(sgn, dm[1], dm[2] /= <<>>, e)

FDivShifted(sgn, na, nb, ge, e) ==
    FDivRound(sgn,
              BDivLimbs(nb, DivLimbs, IF ge THEN <<1>> ELSE <<>>,
                        IF ge THEN BSub(na, nb) ELSE na),
              e)

FDivMan(sgn, na, nb, e) == FDivShifted(sgn, na, nb, BCmp(na, nb) >= 0, e)

FDiv(a, b) ==
    IF FIsZero(a) THEN FZero
    ELSE FDivMan(a.sgn * b.sgn, BShl(a.man, NormShift), BShl(b.man, NormShift),
                 a.exp - b.exp - GuardBits)

\* magnitudes on a common exponent
FAlignTo(a, b, e) ==
    [e |-> e, a |-> BShl(a.man, a.exp - e), b |-> BShl(b.man, b.exp - e)]

FAlign(a, b) == FAlignTo(a, b, IF a.exp < b.exp THEN a.exp ELSE b.exp)

FAddCmp(a, b, al, c) ==
    IF a.sgn = b.sgn THEN FRound(a.sgn, BAdd(al.a, al.b), FALSE, al.e)
    ELSE IF c = 0 THEN FZero
    ELSE FRound(IF c > 0 THEN a.sgn ELSE b.sgn,
                IF c > 0 THEN BSub(al.a, al.b) ELSE BSub(al.b, al.a), FALSE, al.e)

FAddAligned(a, b, al) == FAddCmp(a, b, al, BCmp(al.a, al.b))

FAdd(a, b) ==
    IF FIsZero(a) THEN b
    ELSE IF FIsZero(b) THEN a
    ELSE FAddAligned(a, b, FAlign(a, b))

FSub(a, b) == FAdd(a, FNeg(b))

FCmpAligned(sa, al) == sa * BCmp(al.a, al.b)

FCmpSigns(a, b, sa, sb) ==
    IF sa /= sb THEN (IF sa < sb THEN -1 ELSE 1)
    ELSE IF sa = 0 THEN 0
    ELSE FCmpAligned(sa, FAlign(a, b))

\* -1, 0, 1 as a < b, a = b, a > b
FCmp(a, b) ==
    FCmpSigns(a, b, IF FIsZero(a) THEN 0 ELSE a.sgn, IF FIsZero(b) THEN 0 ELSE b.sgn)

FLt(a, b) == FCmp(a, b) < 0

\* int(a): truncation toward zero
FTrunc(a) ==
    IF FIsZero(a) THEN 0
    ELSE IF a.exp >= 0 THEN a.sgn * BToInt(BShl(a.man, a.exp))
    ELSE a.sgn * BToInt(BShr(a.man, -a.exp))

\* float("n/scale" written as a decimal): the nearest binary64
FDec(n, scale) == FDiv(FFromInt(n), FFromInt(scale))


FOne == FFromInt(1)
FTwo == FFromInt(2)

(***************************************************************************)
(* Python values met by parse_annotations.  A text token is either a       *)
(* decimal numeral n/scale (scale = 1: written without a decimal point, so *)
(* int() accepts it) or not a number at all.                               *)
(***************************************************************************)
PyNone == [t |-> "None", s |-> ""]
PyStr(s) == [t |-> "str", s |-> s]

Num(n, scale) == [k |-> "num", n |-> n, scale |-> scale]
BadTok  == [k |-> "bad", n |-> 0, scale |-> 1]
\* an XML element that is absent (find() returns None)
NoElem  == [k |-> "missing", n |-> 0, scale |-> 1]
\* an XML element without text (its .text is None)
NoText  == [k |-> "empty", n |-> 0, scale |-> 1]

\* results of a Python expression: a value or the exception it raises
Ok(v)     == [exc |-> "", v |-> v]
Raise(e)  == [exc |-> e, v |-> 0]

\* int(token) on a str
PyIntOfStr(tok) ==
    IF tok.k = "num" /\ tok.scale = 1 THEN Ok(tok.n) ELSE Raise("ValueError")

\* float(token) on a str; FZero stands in where the call raises
PyFloatRaises(tok) == tok.k /= "num"
PyFloatOfStr(tok) == IF tok.k = "num" THEN FDec(tok.n, tok.scale) ELSE FZero

Box(label, x_min, y_min, x_max, y_max) ==
    [label |-> label, x_min |-> x_min, y_min |-> y_min,
     x_max |-> x_max, y_max |-> y_max]

(***************************************************************************)
(* parse_annotations, '.txt' branch (YOLO)                                 *)
(***************************************************************************)
\* f"Class {class_id}"
ClassLabel(class_id) == PyStr("Class " \o ToString(class_id))

\* class_names[class_id] if class_names and class_id < len(class_names)
\*                       else f"Class {class_id}"
\* class_names is None (<<>> here, equally falsy) or a list; a negative index
\* counts from the end of the list, and raises IndexError beyond its start
YoloLabel(class_names, class_id) ==
    IF class_names /= <<>> /\ class_id < Len(class_names)
    THEN IF class_id >= 0 THEN Ok(PyStr(class_names[class_id + 1]))
         ELSE IF class_id >= -Len(class_names)
         THEN Ok(PyStr(class_names[Len(class_names) + class_id + 1]))
         ELSE Raise("IndexError")
    ELSE Ok(ClassLabel(class_id))

\* x_min = int(x_center - bbox_width / 2) ... y_max = int(y_center + bbox_height / 2)
YoloBox(label, x_center, y_center, bbox_width, bbox_height) ==
    Box(label,
        FTrunc(FSub(x_center, FDiv(bbox_width, FTwo))),
        FTrunc(FSub(y_center, FDiv(bbox_height, FTwo))),
        FTrunc(FAdd(x_center, FDiv(bbox_width, FTwo))),
        FTrunc(FAdd(y_center, FDiv(bbox_height, FTwo))))

\* the box of a line once its label is known (or the IndexError of the lookup)
YoloLabelled(label, parts, image_width, image_height) ==
    IF label.exc /= "" THEN label
    ELSE Ok(YoloBox(label.v,
                    FMul(PyFloatOfStr(parts[2]), FFromInt(image_width)),
                    FMul(PyFloatOfStr(parts[3]), FFromInt(image_height)),
                    FMul(PyFloatOfStr(parts[4]), FFromInt(image_width)),
                    FMul(PyFloatOfStr(parts[5]), FFromInt(image_height))))

\* the line once class_id = int(parts[0]) has been evaluated
YoloWithClass(cid, parts, image_width, image_height, class_names) ==
    IF cid.exc /= "" THEN cid
    ELSE IF \E i \in 2..5 : PyFloatRaises(parts[i]) THEN Raise("ValueError")
    ELSE YoloLabelled(YoloLabel(class_names, cid.v), parts, image_width, image_height)

\* one line of 5 tokens: the box, or the exception raised
YoloLine(parts, image_width, image_height, class_names) ==
    YoloWithClass(PyIntOfStr(parts[1]), parts, image_width, image_height, class_names)

\* for line in f: ...  (lines[i..], annotations so far)
RECURSIVE YoloLines(_, _, _, _, _, _)
\* r: what the line lines[i] gave
YoloAfterLine(r, lines, i, annotations, image_width, image_height, class_names) ==
    IF r.exc /= "" THEN [exc |-> r.exc, annotations |-> annotations]
    ELSE YoloLines(lines, i + 1, Append(annotations, r.v),
                   image_width, image_height, class_names)

YoloLines(lines, i, annotations, image_width, image_height, class_names) ==
    IF i > Len(lines) THEN [exc |-> "", annotations |-> annotations]
    ELSE IF Len(lines[i]) /= 5
    THEN YoloLines(lines, i + 1, annotations, image_width, image_height, class_names)
    ELSE YoloAfterLine(YoloLine(lines[i], image_width, image_height, class_names),
                       lines, i, annotations, image_width, image_height, class_names)

(***************************************************************************)
(* parse_annotations, '.xml' branch                                        *)
(***************************************************************************)
\* int(float(bndbox.find(tag).text))
XmlCoord(el) ==
    IF el.k = "missing" THEN Raise("AttributeError")
    ELSE IF el.k = "empty" THEN Raise("TypeError")
    ELSE IF PyFloatRaises(el) THEN Raise("ValueError")
    ELSE Ok(FTrunc(PyFloatOfStr(el)))

\* the box of four coordinates evaluated in the order x_min, y_min, x_max,
\* y_max, or the first exception among them
CoordBox(label, x_min, y_min, x_max, y_max) ==
    IF x_min.exc /= "" THEN [exc |-> x_min.exc, boxes |-> <<>>]
    ELSE IF y_min.exc /= "" THEN [exc |-> y_min.exc, boxes |-> <<>>]
    ELSE IF x_max.exc /= "" THEN [exc |-> x_max.exc, boxes |-> <<>>]
    ELSE IF y_max.exc /= "" THEN [exc |-> y_max.exc, boxes |-> <<>>]
    ELSE [exc |-> "", boxes |-> <<Box(label, x_min.v, y_min.v, x_max.v, y_max.v)>>]

\* obj.find('name').text if obj.find('name') is not None else "No Label"
XmlLabel(obj) == IF obj.hasName THEN obj.name ELSE PyStr("No Label")

\* a slip: bndbox.find(...) without the 'if bndbox is not None' test
XmlObjectNoBndboxTest(obj) ==
    IF ~obj.hasBndbox THEN [exc |-> "AttributeError", boxes |-> <<>>]
    ELSE CoordBox(XmlLabel(obj), XmlCoord(obj.xmin), XmlCoord(obj.ymin),
                  XmlCoord(obj.xmax), XmlCoord(obj.ymax))

\* one <object>: a box, nothing (no bndbox), or the exception raised
XmlObject(obj) ==
    IF ~obj.hasBndbox THEN [exc |-> "", boxes |-> <<>>]
    ELSE CoordBox(XmlLabel(obj), XmlCoord(obj.xmin), XmlCoord(obj.ymin),
                  XmlCoord(obj.xmax), XmlCoord(obj.ymax))

RECURSIVE XmlObjects(_, _, _)
\* r: what the object objs[i] gave
XmlAfterObject(r, objs, i, annotations) ==
    IF r.exc /= "" THEN [exc |-> r.exc, annotations |-> annotations]
    ELSE XmlObjects(objs, i + 1, annotations \o r.boxes)

XmlObjects(objs, i, annotations) ==
    IF i > Len(objs) THEN [exc |-> "", annotations |-> annotations]
    ELSE XmlAfterObject(XmlObject(objs[i]), objs, i, annotations)

(***************************************************************************)
(* parse_annotations, '.json' branch.  A JSON number is a Python int or a  *)
(* Python float; a key that is absent (or null) reads as None.             *)
(***************************************************************************)
JInt(n)          == [t |-> "int", n |-> n, f |-> FZero]
JFloat(n, scale) == [t |-> "float", n |-> 0, f |-> FDec(n, scale)]
JStr             == [t |-> "str", n |-> 0, f |-> FZero]
JNone            == [t |-> "None", n |-> 0, f |-> FZero]

\* int(v)
PyInt(v) ==
    IF v.t = "int" THEN Ok(v.n)
    ELSE IF v.t = "float" THEN Ok(FTrunc(v.f))
    ELSE IF v.t = "str" THEN Raise("ValueError")
    ELSE Raise("TypeError")

\* float(v) of an int or a float
PyFloat(v) == IF v.t = "int" THEN FFromInt(v.n) ELSE v.f

\* a + b
PyAdd(a, b) ==
    IF a.t = "int" /\ b.t = "int" THEN Ok(JInt(a.n + b.n))
    ELSE IF a.t \in {"int", "float"} /\ b.t \in {"int", "float"}
    THEN Ok([t |-> "float", n |-> 0, f |-> FAdd(PyFloat(a), PyFloat(b))])
    ELSE IF a.t = "str" /\ b.t = "str" THEN Ok(JStr)
    ELSE Raise("TypeError")

\* int(sum), sum having been evaluated
PyIntOfResult(sum) == IF sum.exc /= "" THEN sum ELSE PyInt(sum.v)

\* a slip: the extent alone, without the origin added
PyIntOfExtentOnly(a, b) == PyInt(b)

\* int(a + b)
PyIntOfSum(a, b) == PyIntOfResult(PyAdd(a, b))

\* anno.get('label', 'No Label')
JsonLabel(anno) == IF anno.hasLabel THEN anno.label ELSE PyStr("No Label")

\* one element of annotations_data[0]['annotations']
JsonAnno(anno) ==
    IF ~anno.isDict THEN [exc |-> "AttributeError", boxes |-> <<>>]
    ELSE IF ~anno.hasCoords THEN [exc |-> "", boxes |-> <<>>]
    ELSE IF \E v \in {anno.x, anno.y, anno.width, anno.height} : v.t = "None"
    THEN [exc |-> "", boxes |-> <<>>]
    ELSE CoordBox(JsonLabel(anno), PyInt(anno.x), PyInt(anno.y),
                  PyIntOfSum(anno.x, anno.width), PyIntOfSum(anno.y, anno.height))

RECURSIVE JsonAnnos(_, _, _)
\* r: what the element annos[i] gave
JsonAfterAnno(r, annos, i, annotations) ==
    IF r.exc /= "" THEN [exc |-> r.exc, annotations |-> annotations]
    ELSE JsonAnnos(annos, i + 1, annotations \o r.boxes)

JsonAnnos(annos, i, annotations) ==
    IF i > Len(annos) THEN [exc |-> "", annotations |-> annotations]
    ELSE JsonAfterAnno(JsonAnno(annos[i]), annos, i, annotations)

\* the top-level shapes of the decoded document:
\*   "falsy"       [] {} null 0      -> warning, no boxes
\*   "object"      a non-empty dict  -> warning, no boxes
\*   "list_scalar" [1, ...]          -> 'annotations' in 1 raises TypeError
\*   "list_nokey"  [{...}] without the key -> warning, no boxes
\*   "list_annos"  [{"annotations": [...]}]
JsonDocument(doc) ==
    IF doc.shape = "list_scalar" THEN [exc |-> "TypeError", annotations |-> <<>>]
    ELSE IF doc.shape = "list_annos" THEN JsonAnnos(doc.items, 1, <<>>)
    ELSE [exc |-> "", annotations |-> <<>>]

(***************************************************************************)
(* parse_annotations: the try body, then the except clauses                *)
(***************************************************************************)
\* open(annotation_path) / ET.parse(annotation_path)
OpenError(file) ==
    IF file.access = "missing" THEN "FileNotFoundError"
    ELSE IF file.access = "denied" THEN "PermissionError"
    ELSE ""

TryBody(file, image_width, image_height, class_names) ==
    IF file.ext \in {".json", ".xml", ".txt"} /\ OpenError(file) /= ""
    THEN [exc |-> OpenError(file), annotations |-> <<>>]
    ELSE IF file.ext = ".json"
    THEN IF ~file.wellFormed THEN [exc |-> "JSONDecodeError", annotations |-> <<>>]
         ELSE JsonDocument(file.body)
    ELSE IF file.ext = ".xml"
    THEN IF ~file.wellFormed THEN [exc |-> "ParseError", annotations |-> <<>>]
         ELSE XmlObjects(file.body, 1, <<>>)
    ELSE IF file.ext = ".txt"
    THEN YoloLines(file.body, 1, <<>>, image_width, image_height, class_names)
    ELSE [exc |-> "", annotations |-> <<>>]

\* the classes derived from Exception among those the body can raise
ExceptionClasses ==
    {"FileNotFoundError", "PermissionError", "JSONDecodeError", "ParseError",
     "ValueError", "TypeError", "AttributeError", "IndexError"}

CaughtWithoutCatchAll(exc) ==
    \/ exc = "FileNotFoundError"
    \/ exc \in {"JSONDecodeError", "ParseError", "ValueError"}

\* except FileNotFoundError / except (JSONDecodeError, ParseError, ValueError)
\* / except Exception
Caught(exc) ==
    \/ exc = "FileNotFoundError"
    \/ exc \in {"JSONDecodeError", "ParseError", "ValueError"}
    \/ exc \in ExceptionClasses

\* the except clauses and the return, body being what the try body gave
Handled(body) ==
    [annotations |-> body.annotations,
     caught      |-> IF body.exc /= "" /\ Caught(body.exc) THEN body.exc ELSE "",
     raised      |-> IF body.exc /= "" /\ ~Caught(body.exc) THEN body.exc ELSE ""]

\* the call: what it returns, and the exception that leaves it ("" if none)
parse_annotations(file, image_width, image_height, class_names) ==
    Handled(TryBody(file, image_width, image_height, class_names))

(***************************************************************************)
(* The inputs of parse_annotations that are enumerated                     *)
(***************************************************************************)
MaxLines   == 2
MaxObjects == 3
MaxAnnos   == 2

SeqsUpTo(S, n) == UNION {[1..k -> S] : k \in 0..n}

ImageSizes  == {<<100, 100>>, <<64, 48>>}
\* no table (None, or an empty list: both falsy) or a table of two names
ClassTables == {<<>>, <<"silver marking", "balancing weight">>}

\* YOLO lines: '<class> 0.5 0.5 0.2 0.2', '<class> 0.5 abc 0.2 0.2' for the
\* class tokens 0 2 -1 -3 abc, a line of three tokens, a blank line
YoloClassToks == {Num(0, 1), Num(2, 1), Num(-1, 1), Num(-3, 1), BadTok}
YoloCoordToks ==
    {<<Num(5, 10), Num(5, 10), Num(2, 10), Num(2, 10)>>,
     <<Num(5, 10), BadTok, Num(2, 10), Num(2, 10)>>}
YoloLineSet ==
    {<<c>> \o co : c \in YoloClassToks, co \in YoloCoordToks}
    \cup {<<Num(0, 1), Num(5, 10), Num(5, 10)>>, <<>>}

XmlObj(hasName, name, hasBndbox, xmin, ymin, xmax, ymax) ==
    [hasName |-> hasName, name |-> name, hasBndbox |-> hasBndbox,
     xmin |-> xmin, ymin |-> ymin, xmax |-> xmax, ymax |-> ymax]

XmlObjectSet ==
    {XmlObj(TRUE, PyStr("car"), TRUE, Num(10, 1), Num(5, 1), Num(50, 1), Num(60, 1)),
     XmlObj(FALSE, PyNone, TRUE, Num(109, 10), Num(5, 1), Num(207, 10), Num(60, 1)),
     XmlObj(TRUE, PyNone, TRUE, Num(1, 1), Num(2, 1), Num(3, 1), Num(4, 1)),
     XmlObj(TRUE, PyStr("car"), FALSE, NoElem, NoElem, NoElem, NoElem),
     XmlObj(FALSE, PyNone, FALSE, NoElem, NoElem, NoElem, NoElem),
     XmlObj(TRUE, PyStr("car"), TRUE, Num(10, 1), Num(5, 1), BadTok, Num(60, 1)),
     XmlObj(TRUE, PyStr("car"), TRUE, Num(10, 1), NoElem, Num(50, 1), Num(60, 1)),
     XmlObj(TRUE, PyStr("car"), TRUE, NoText, Num(5, 1), Num(50, 1), Num(60, 1))}

JsonEntry(isDict, hasLabel, hasCoords, x, y, width, height) ==
    [isDict |-> isDict, hasLabel |-> hasLabel, label |-> PyStr("Weight"),
     hasCoords |-> hasCoords, x |-> x, y |-> y, width |-> width, height |-> height]

JsonEntrySet ==
    {JsonEntry(TRUE, TRUE, TRUE, x, yh[1], w, yh[2]) :
        x \in {JInt(10), JFloat(-175, 100), JStr, JNone},
        w \in {JInt(30), JFloat(275, 100)},
        yh \in {<<JInt(20), JInt(40)>>, <<JFloat(25, 100), JFloat(5, 10)>>}}
    \cup {JsonEntry(TRUE, FALSE, FALSE, JNone, JNone, JNone, JNone),
          JsonEntry(FALSE, FALSE, FALSE, JNone, JNone, JNone, JNone)}

File(ext, access, wellFormed, body) ==
    [ext |-> ext, access |-> access, wellFormed |-> wellFormed, body |-> body]

YoloFiles == {File(".txt", "ok", TRUE, b) : b \in SeqsUpTo(YoloLineSet, MaxLines)}
XmlFiles  ==
    {File(".xml", "ok", TRUE, b) : b \in SeqsUpTo(XmlObjectSet, MaxObjects)}
    \cup {File(".xml", "ok", FALSE, <<>>)}
JsonDoc(shape, items) == [shape |-> shape, items |-> items]
JsonFiles ==
    {File(".json", "ok", TRUE, JsonDoc("list_annos", b)) :
        b \in SeqsUpTo(JsonEntrySet, MaxAnnos)}
    \cup {File(".json", "ok", TRUE, JsonDoc(sh, <<>>)) :
            sh \in {"falsy", "object", "list_scalar", "list_nokey"}}
    \cup {File(".json", "ok", FALSE, JsonDoc("falsy", <<>>))}
\* files that cannot be opened, and a file of an unsupported extension
OtherFiles ==
    {File(ext, acc, TRUE, <<>>) :
        ext \in {".json", ".xml", ".txt", ".csv"}, acc \in {"missing", "denied"}}
    \cup {File(".csv", "ok", TRUE, <<>>)}

NoResult == [annotations |-> <<>>, caught |-> "", raised |-> ""]

VARIABLES
    pc,               \* "call": parse_annotations not yet called; "returned"
    annotation_file,  \* the file at annotation_path
    image_size,       \* <<image_width, image_height>>
    class_names,
    result            \* what the call produced

pvars == <<pc, annotation_file, image_size, class_names, result>>

ParseInit ==
    /\ pc = "call"
    /\ \/ annotation_file \in YoloFiles
       \/ annotation_file \in XmlFiles
       \/ annotation_file \in JsonFiles
       \/ annotation_file \in OtherFiles
    /\ image_size \in ImageSizes
    /\ class_names \in ClassTables
    /\ result = NoResult

CallParse ==
    /\ pc = "call"
    /\ result' = parse_annotations(annotation_file, image_size[1], image_size[2],
                                   class_names)
    /\ pc' = "returned"
    /\ UNCHANGED <<annotation_file, image_size, class_names>>

(***************************************************************************)
(* Properties of parse_annotations (checked under SpecParse)               *)
(***************************************************************************)
Returned == pc = "returned"
Boxes    == result.annotations

IsSuffix(s, t) ==
    Len(s) <= Len(t) /\ SubSeq(t, Len(t) - Len(s) + 1, Len(t)) = s

\* C1: parse_annotations never raises past its boundary: whatever the file
\* (missing, unreadable, any extension, well-formed or malformed), the image
\* size and the class table, the call returns and no exception leaves it.
C1_NeverRaises == Returned => result.raised = ""

\* C1 witness: a call whose body raised an exception that only the final
\* 'except Exception' clause catches, and that returned.
C1_Witness == Returned /\ result.caught \in {"AttributeError", "IndexError"}

\* C2: whenever the parser meets a parse error or a non-numeric token, the
\* sequence it returns for that file is empty.
C2_MalformedYieldsEmpty ==
    (Returned /\ result.caught \in {"JSONDecodeError", "ParseError", "ValueError"})
        => Boxes = <<>>

\* the lines of a YOLO file that have exactly 5 tokens, in file order
FiveTokenLines(body) == SelectSeq(body, LAMBDA l : Len(l) = 5)

\* the label C3 states for a class id
ClaimedLabel(names, id) ==
    IF names /= <<>> /\ 0 <= id /\ id < Len(names)
    THEN PyStr(names[id + 1])
    ELSE PyStr("Class " \o ToString(id))

\* C3: the label of the box produced for a 5-token YOLO line is
\* class_names[class_id] if a table was supplied and 0 <= class_id < len(table),
\* and "Class {class_id}" in every other case.  (The j-th box comes from the
\* j-th 5-token line: the loop stops at the first line that raises.)
C3_LabelInRangeElseClassId ==
    (Returned /\ annotation_file.ext = ".txt" /\ annotation_file.access = "ok")
        => \A j \in 1..Len(Boxes) :
              Boxes[j].label =
                  ClaimedLabel(class_names, FiveTokenLines(annotation_file.body)[j][1].n)

IsJsonList(file) ==
    /\ file.ext = ".json" /\ file.access = "ok" /\ file.wellFormed
    /\ file.body.shape = "list_annos"

\* the entries that carry all four of x, y, width, height, in file order
CarryingEntries(items) ==
    SelectSeq(items, LAMBDA a : a.isDict /\ a.hasCoords
                        /\ \A v \in {a.x, a.y, a.width, a.height} : v.t /= "None")

AllNumeric(a) == \A v \in {a.x, a.y, a.width, a.height} : v.t \in {"int", "float"}
AllInteger(a) == \A v \in {a.x, a.y, a.width, a.height} : v.t = "int"

\* Python's ==  between an int and a JSON number
NumEq(i, v) == IF v.t = "int" THEN i = v.n ELSE FCmp(FFromInt(i), v.f) = 0

ExactBox(b, a) ==
    /\ NumEq(b.x_max - b.x_min, a.width)
    /\ NumEq(b.y_max - b.y_min, a.height)
    /\ NumEq(b.x_min, a.x)
    /\ NumEq(b.y_min, a.y)

\* C6 as stated: for every entry with four numeric values, integer or
\* fractional, x_max - x_min == width, y_max - y_min == height, x_min == x and
\* y_min == y hold exactly.  (The j-th box comes from the j-th carrying entry.)
C6_ExactForAllNumeric ==
    (Returned /\ IsJsonList(annotation_file))
        => \A j \in 1..Len(Boxes) :
              LET a == CarryingEntries(annotation_file.body.items)[j]
              IN  AllNumeric(a) => ExactBox(Boxes[j], a)

\* C6 amended: the same equalities for every entry whose four values are
\* integers.
C6_ExactForIntegers ==
    (Returned /\ IsJsonList(annotation_file))
        => \A j \in 1..Len(Boxes) :
              LET a == CarryingEntries(annotation_file.body.items)[j]
              IN  AllInteger(a) => ExactBox(Boxes[j], a)

\* C6 witness: a JSON file whose second box comes from an all-integer entry.
C6_Witness ==
    /\ Returned /\ IsJsonList(annotation_file) /\ Len(Boxes) = 2
    /\ AllInteger(CarryingEntries(annotation_file.body.items)[2])

IsXmlDoc(file) == file.ext = ".xml" /\ file.access = "ok" /\ file.wellFormed

XmlFields(obj) == {obj.xmin, obj.ymin, obj.xmax, obj.ymax}
\* an object with a complete numeric bndbox / with a bndbox that is not
GoodObject(obj) == obj.hasBndbox /\ \A el \in XmlFields(obj) : el.k = "num"
BadObject(obj)  == obj.hasBndbox /\ \E el \in XmlFields(obj) : el.k /= "num"

\* the box a good object stands for: float then truncation of each field
ExpectedXmlBox(obj) ==
    Box(IF obj.hasName THEN obj.name ELSE PyStr("No Label"),
        FTrunc(FDec(obj.xmin.n, obj.xmin.scale)),
        FTrunc(FDec(obj.ymin.n, obj.ymin.scale)),
        FTrunc(FDec(obj.xmax.n, obj.xmax.scale)),
        FTrunc(FDec(obj.ymax.n, obj.ymax.scale)))

RECURSIVE ExpectedXmlBoxes(_)
ExpectedXmlBoxes(objs) ==
    IF objs = <<>> THEN <<>>
    ELSE (IF GoodObject(Head(objs)) THEN <<ExpectedXmlBox(Head(objs))>> ELSE <<>>)
         \o ExpectedXmlBoxes(Tail(objs))

\* index of the first object with an incomplete or non-numeric bndbox
FirstBad(objs) ==
    IF \E i \in 1..Len(objs) : BadObject(objs[i])
    THEN CHOOSE i \in 1..Len(objs) :
            BadObject(objs[i]) /\ \A k \in 1..(i - 1) : ~BadObject(objs[k])
    ELSE Len(objs) + 1

NoPath == <<"", "">>

\* Image.open(path): the image's size, or unreadable (the call raises)
ImageOnDisk(path) ==
    CASE path = <<"a", ".png">> -> [readable |-> TRUE, size |-> <<150, 100>>]
      [] path = <<"b", ".jpg">> -> [readable |-> TRUE, size |-> <<64, 48>>]
      [] path = <<"c", ".png">> -> [readable |-> TRUE, size |-> <<64, 48>>]
      [] OTHER                  -> [readable |-> FALSE, size |-> <<0, 0>>]

\* the annotation files: a.txt (one YOLO box), b.json (one box, one entry
\* without coordinates), c.xml (an object whose <name/> has no text, so its
\* label is None), d.txt (a box, then a malformed line)
LabelOnDisk(path) ==
    CASE path = <<"a", ".txt">> ->
            File(".txt", "ok", TRUE,
                 << <<Num(0, 1), Num(5, 10), Num(5, 10), Num(2, 10), Num(2, 10)>> >>)
      [] path = <<"b", ".json">> ->
            File(".json", "ok", TRUE,
                 JsonDoc("list_annos",
                         << JsonEntry(TRUE, TRUE, TRUE, JInt(10), JInt(20), JInt(30), JInt(40)),
                            JsonEntry(TRUE, FALSE, FALSE, JNone, JNone, JNone, JNone) >>))
      [] path = <<"c", ".xml">> ->
            File(".xml", "ok", TRUE,
                 << XmlObj(TRUE, PyNone, TRUE, Num(1, 1), Num(2, 1), Num(3, 1), Num(4, 1)) >>)
      [] path = <<"d", ".txt">> ->
            File(".txt", "ok", TRUE,
                 << <<Num(1, 1), Num(5, 10), Num(5, 10), Num(2, 10), Num(2, 10)>>,
                    <<BadTok, Num(5, 10), Num(5, 10), Num(2, 10), Num(2, 10)>> >>)
      [] OTHER -> File(path[2], "missing", TRUE, <<>>)

ExistsOnDisk(path) ==
    path \in {<<"a", ".png">>, <<"b", ".jpg">>, <<"c", ".png">>, <<"x", ".png">>,
              <<"a", ".txt">>, <<"b", ".json">>, <<"c", ".xml">>, <<"d", ".txt">>,
              <<"classes", ".txt">>}

\* load_yolo_classes(classes_file_path)
load_yolo_classes(classes_file_path) ==
    IF classes_file_path /= NoPath /\ ExistsOnDisk(classes_file_path)
    THEN <<"silver marking", "balancing weight">>
    ELSE <<>>

\* the folders: the names listed in images_dir and labels_dir (after the
\* images/ + labels/ or flat-folder choice), and the classes file found
FolderOnDisk(folder) ==
    CASE folder = "setA" ->
            [isdir |-> TRUE,
             listing |-> {<<"b", ".jpg">>, <<"a", ".png">>, <<"c", ".png">>,
                          <<"x", ".png">>, <<"notes", ".csv">>},
             labels |-> {<<"a", ".txt">>, <<"b", ".json">>, <<"b", ".txt">>,
                         <<"c", ".xml">>},
             classes |-> <<"classes", ".txt">>]
      [] folder = "setB" ->
            [isdir |-> TRUE,
             listing |-> {<<"z", ".png">>, <<"notes", ".csv">>},
             labels |-> {<<"a", ".txt">>},
             classes |-> NoPath]
      [] folder = "setC" ->
            [isdir |-> TRUE,
             listing |-> {<<"c", ".png">>},
             labels |-> {<<"c", ".xml">>},
             classes |-> NoPath]
      [] OTHER -> [isdir |-> FALSE, listing |-> {}, labels |-> {}, classes |-> NoPath]

\* sorted(): the names in lexicographic order
NameOrder ==
    << <<"a", ".png">>, <<"b", ".jpg">>, <<"c", ".png">>, <<"notes", ".csv">>,
       <<"x", ".png">>, <<"z", ".png">> >>
Sorted(names) == SelectSeq(NameOrder, LAMBDA n : n \in names)

(***************************************************************************)
(* draw_bounding_boxes: the annotated copy of the image, or None           *)
(***************************************************************************)
NoImage == [loaded |-> FALSE, path |-> NoPath, size |-> <<0, 0>>, overlays |-> <<>>]

\* the colour by label: "silver marking" / "balancing weight" in label.lower()
BoxColor(label) ==
    IF label.s = "silver marking" THEN "yellow"
    ELSE IF label.s = "balancing weight" THEN "cyan"
    ELSE "red"

\* the rectangle and the text drawn for one annotation
Overlay(annotation) ==
    [box |-> annotation, outline |-> BoxColor(annotation.label), width |-> 3,
     text_y |-> IF annotation.y_min - 20 > 0 THEN annotation.y_min - 20
                ELSE annotation.y_min + 5]

RECURSIVE Overlays(_)
Overlays(annotations) ==
    IF annotations = <<>> THEN <<>>
    ELSE <<Overlay(Head(annotations))>> \o Overlays(Tail(annotations))

\* label.lower() raises AttributeError on a None label; Image.open raises on
\* an unreadable file; both are caught, and the function returns None
draw_bounding_boxes(image_path, annotations) ==
    IF ~ImageOnDisk(image_path).readable THEN NoImage
    ELSE IF \E i \in 1..Len(annotations) : annotations[i].label = PyNone THEN NoImage
    ELSE [loaded |-> TRUE, path |-> image_path, size |-> ImageOnDisk(image_path).size,
          overlays |-> Overlays(annotations)]

(***************************************************************************)
(* BoundingBoxViewerApp: the state                                         *)
(***************************************************************************)
VARIABLES
    original_image_pil,     \* NoImage, or the annotated image being displayed
    zoom_level,             \* float
    image_x_offset,         \* float (0 or a half-integer)
    image_y_offset,
    canvas_size,            \* <<winfo_width(), winfo_height()>> of the canvas
    scroll_origin,          \* <<canvasx(0), canvasy(0)>>: the canvas view
    scroll_region,          \* the scrollregion <<w, h>>, <<0, 0>> while not set
    image_path,             \* the three StringVars of manual mode
    label_path,
    classes_path,
    auto_folder_path,
    image_files_for_auto,   \* sequence of <<img_path, label_path, class_names>>
    current_image_index,
    nav_entry_var,          \* the text of the "go to" entry, a token
    nav_enabled,            \* Previous / Next / Go / entry are in state NORMAL
    drawings_on_canvas,     \* sequence of strokes; a stroke is <<x1, y1, x2, y2, ...>>
    drawing_active,
    stale_stroke,           \* history: a stroke is in progress and an image was
                            \* loaded since start_draw began it
    current_drawing_coords_unscaled,
    current_mode,           \* "pan" | "draw" | "erase"
    after_id,               \* _after_id: 0 for None, else the id of a timer
    timers,                 \* the pending root.after timers
    is_fullscreen,
    saved_file,             \* what the last handler wrote with image.save()
    dialog,                 \* the messagebox the last handler showed ("" if none)
    \* history, for the statement of properties
    shown_from,             \* label file and class table of the displayed image
    fit_zoom,               \* zoom_level as fit_image_to_canvas last set it
    zoom_ins,               \* zoom-in / zoom-out gestures since then
    zoom_outs,
    burst,                  \* <Configure> events since a resize timer last fired
    erase_log               \* the point and the stroke list of the do_erase that ran last

viewVars  == <<zoom_level, image_x_offset, image_y_offset, scroll_origin, scroll_region,
               fit_zoom, zoom_ins, zoom_outs>>
imageVars == <<original_image_pil, shown_from, stale_stroke>>
pathVars  == <<image_path, label_path, classes_path, auto_folder_path>>
navVars   == <<image_files_for_auto, current_image_index, nav_entry_var, nav_enabled>>
drawVars  == <<drawing_active, current_drawing_coords_unscaled>>
timerVars == <<after_id, timers, burst, is_fullscreen>>

gvars == <<viewVars, imageVars, pathVars, navVars, drawVars, timerVars,
           canvas_size, drawings_on_canvas, current_mode,
           saved_file, dialog, erase_log>>

vars == <<pvars, gvars>>

NoFile == [written |-> FALSE, image |-> NoImage, lines |-> <<>>]
NoSource == [label |-> NoPath, class_names |-> <<>>]
NoErase == [erased |-> FALSE, at |-> <<>>, before |-> <<>>]

\* __init__ (set_mode("pan") included); the canvas is not mapped yet, so
\* winfo_width() and winfo_height() are 1
GuiInit ==
    /\ original_image_pil = NoImage
    /\ zoom_level = FOne
    /\ image_x_offset = FZero
    /\ image_y_offset = FZero
    /\ canvas_size = <<1, 1>>
    /\ scroll_origin = <<0, 0>>
    /\ scroll_region = <<0, 0>>
    /\ image_path = NoPath
    /\ label_path = NoPath
    /\ classes_path = NoPath
    /\ auto_folder_path = ""
    /\ image_files_for_auto = <<>>
    /\ current_image_index = 0
    /\ nav_entry_var = BadTok
    /\ nav_enabled = FALSE
    /\ drawings_on_canvas = <<>>
    /\ drawing_active = FALSE
    /\ stale_stroke = FALSE
    /\ current_drawing_coords_unscaled = <<>>
    /\ current_mode = "pan"
    /\ after_id = 0
    /\ timers = {}
    /\ is_fullscreen = FALSE
    /\ saved_file = NoFile
    /\ dialog = ""
    /\ shown_from = NoSource
    /\ fit_zoom = FOne
    /\ zoom_ins = 0
    /\ zoom_outs = 0
    /\ burst = 0
    /\ erase_log = NoErase

\* what every handler leaves behind: no file written, no dialog, unless it says so
NoSave == saved_file' = NoFile /\ erase_log' = NoErase
Quiet == NoSave /\ dialog' = ""

(***************************************************************************)
(* redraw_canvas and fit_image_to_canvas, as functions of the view         *)
(***************************************************************************)
View(zoom, x, y, origin, region) ==
    [zoom |-> zoom, x |-> x, y |-> y, origin |-> origin, region |-> region]
CurView == View(zoom_level, image_x_offset, image_y_offset, scroll_origin, scroll_region)

Max(a, b) == IF a > b THEN a ELSE b
Min(a, b) == IF a < b THEN a ELSE b

\* the canvas keeps its view inside the scrollregion (confine)
Confine(origin_len, canvas_len, region_len) ==
    Max(0, Min(origin_len, region_len - canvas_len))

\* int(img_w * self.zoom_level)
DispSize(img_len, zoom) == FTrunc(FMul(FFromInt(img_len), zoom))

\* max(0, (canvas_w - disp_w) / 2)
CenterOffset(canvas_len, disp_len) ==
    IF canvas_len - disp_len > 0
    THEN FDiv(FFromInt(canvas_len - disp_len), FTwo)
    ELSE FZero

\* a slip: the offsets left as they were
redraw_canvas_stale(img, canvas, v) == v

redraw_canvas(img, canvas, v) ==
    IF ~img.loaded THEN v
    ELSE LET disp_w == DispSize(img.size[1], v.zoom)
             disp_h == DispSize(img.size[2], v.zoom)
             region == <<Max(disp_w, canvas[1]), Max(disp_h, canvas[2])>>
         IN  View(v.zoom, CenterOffset(canvas[1], disp_w), CenterOffset(canvas[2], disp_h),
                  <<Confine(v.origin[1], canvas[1], region[1]),
                    Confine(v.origin[2], canvas[2], region[2])>>,
                  region)

\* fit_image_to_canvas goes past its two early returns
FitCompletes(img, canvas) ==
    /\ img.loaded
    /\ ~(canvas[1] <= 1 \/ canvas[2] <= 1 \/ img.size[1] <= 0 \/ img.size[2] <= 0)

\* min(canvas_w / img_w, canvas_h / img_h)
FitZoom(img, canvas) ==
    LET zw == FDiv(FFromInt(canvas[1]), FFromInt(img.size[1]))
        zh == FDiv(FFromInt(canvas[2]), FFromInt(img.size[2]))
    IN  IF FLt(zh, zw) THEN zh ELSE zw

fit_image_to_canvas(img, canvas, v) ==
    IF ~FitCompletes(img, canvas) THEN v
    ELSE redraw_canvas(img, canvas, [v EXCEPT !.zoom = FitZoom(img, canvas)])

SetView(v) ==
    /\ zoom_level' = v.zoom
    /\ image_x_offset' = v.x
    /\ image_y_offset' = v.y
    /\ scroll_origin' = v.origin
    /\ scroll_region' = v.region

\* the effect of a call of fit_image_to_canvas on the view and its history
DoFit(img) ==
    /\ SetView(fit_image_to_canvas(img, canvas_size, CurView))
    /\ IF FitCompletes(img, canvas_size)
       THEN fit_zoom' = FitZoom(img, canvas_size) /\ zoom_ins' = 0 /\ zoom_outs' = 0
       ELSE UNCHANGED <<fit_zoom, zoom_ins, zoom_outs>>

(***************************************************************************)
(* Loading an image                                                        *)
(***************************************************************************)
\* Image.open; parse_annotations; draw_bounding_boxes: the annotated image
\* (NoImage for None), or exc when Image.open raises
LoadOutcome(img_path, label, names) ==
    LET disk == ImageOnDisk(img_path)
    IN  IF ~disk.readable THEN [exc |-> TRUE, image |-> NoImage]
        ELSE LET annotations ==
                     parse_annotations(LabelOnDisk(label), disk.size[1], disk.size[2],
                                       names).annotations
             IN  [exc |-> FALSE, image |-> draw_bounding_boxes(img_path, annotations)]

\* a slip: the strokes of the previous image kept
ClearedDrawingsKept(drawings) == drawings

\* self.drawings_on_canvas.clear()
ClearedDrawings(drawings) == <<>>

\* if annotated_image_pil: drawings_on_canvas.clear(); display_image_on_canvas(...)
Display(pil, label, names) ==
    /\ drawings_on_canvas' = ClearedDrawings(drawings_on_canvas)
    /\ original_image_pil' = pil
    /\ shown_from' = [label |-> label, class_names |-> names]
    /\ stale_stroke' = drawing_active
    /\ DoFit(pil)

NoDisplay == UNCHANGED <<drawings_on_canvas, imageVars, viewVars>>

\* the try block of process_single_image, out being what Image.open,
\* parse_annotations and draw_bounding_boxes gave
ProcessLoaded(out, names) ==
    IF out.exc THEN dialog' = "An error occurred" /\ NoDisplay
    ELSE IF out.image.loaded
    THEN dialog' = "" /\ Display(out.image, label_path, names)
    ELSE dialog' = "" /\ NoDisplay

\* load_yolo_classes(classes_p) if classes_p else None
ManualClassNames == IF classes_path /= NoPath THEN load_yolo_classes(classes_path) ELSE <<>>

process_single_image ==
    /\ NoSave
    /\ IF \/ image_path = NoPath \/ ~ExistsOnDisk(image_path)
          \/ label_path = NoPath \/ ~ExistsOnDisk(label_path)
       THEN dialog' = "Please select valid image and label files." /\ NoDisplay
       ELSE ProcessLoaded(LoadOutcome(image_path, label_path, ManualClassNames),
                          ManualClassNames)
    /\ UNCHANGED <<pathVars, navVars, drawVars, timerVars, canvas_size, current_mode>>

\* browse_file(var, filetypes): file_path is what the dialog returns (NoPath
\* when cancelled)
BrowseChoices(var) ==
    IF var = "image" THEN {NoPath, <<"a", ".png">>, <<"x", ".png">>}
    ELSE IF var = "label" THEN {NoPath, <<"a", ".txt">>, <<"c", ".xml">>}
    ELSE {NoPath, <<"classes", ".txt">>}

browse_file(var, file_path) ==
    /\ Quiet
    /\ IF file_path /= NoPath
       THEN /\ image_path' = IF var = "image" THEN file_path ELSE image_path
            /\ label_path' = IF var = "label" THEN file_path ELSE label_path
            /\ classes_path' = IF var = "classes" THEN file_path ELSE classes_path
            /\ drawings_on_canvas' = ClearedDrawings(drawings_on_canvas)
       ELSE UNCHANGED <<image_path, label_path, classes_path, drawings_on_canvas>>
    /\ UNCHANGED <<auto_folder_path, imageVars, viewVars, navVars, drawVars, timerVars,
                   canvas_size, current_mode>>

browse_auto_folder(folder_path) ==
    /\ Quiet
    /\ IF folder_path /= ""
       THEN /\ auto_folder_path' = folder_path
            /\ drawings_on_canvas' = ClearedDrawings(drawings_on_canvas)
       ELSE UNCHANGED <<auto_folder_path, drawings_on_canvas>>
    /\ UNCHANGED <<image_path, label_path, classes_path, imageVars, viewVars, navVars,
                   drawVars, timerVars, canvas_size, current_mode>>

(***************************************************************************)
(* Automated folder processing and navigation                              *)
(***************************************************************************)
IsImageName(name) == name[2] \in {".png", ".jpg", ".jpeg"}

\* for ext in ['.json', '.xml', '.txt']: the first label that exists
LabelFor(base, labels) ==
    IF <<base, ".json">> \in labels THEN <<base, ".json">>
    ELSE IF <<base, ".xml">> \in labels THEN <<base, ".xml">>
    ELSE IF <<base, ".txt">> \in labels THEN <<base, ".txt">>
    ELSE NoPath

RECURSIVE FoundPairs(_, _, _)
FoundPairs(image_paths, labels, names) ==
    IF image_paths = <<>> THEN <<>>
    ELSE LET img == Head(image_paths)
             lab == LabelFor(img[1], labels)
         IN  (IF lab /= NoPath THEN << <<img, lab, names>> >> ELSE <<>>)
             \o FoundPairs(Tail(image_paths), labels, names)

\* the try block of show_current_automated_image, out being what Image.open,
\* parse_annotations and draw_bounding_boxes gave; "shown": the image was displayed
ShowLoaded(out) ==
    [dialog |-> IF out.exc THEN "Could not load" ELSE "",
     shown  |-> ~out.exc /\ out.image.loaded,
     image  |-> out.image]

\* show_current_automated_image with the list and the index as they are
\* when it is called
ShowOutcome(files, index) ==
    IF files = <<>> THEN [dialog |-> "", shown |-> FALSE, image |-> NoImage]
    ELSE IF index < 0 \/ index >= Len(files)
    THEN [dialog |-> "IndexError", shown |-> FALSE, image |-> NoImage]
    ELSE ShowLoaded(LoadOutcome(files[index + 1][1], files[index + 1][2],
                                files[index + 1][3]))

\* str(n)
PyStrOfInt(n) == Num(n, 1)

\* what the call does to the canvas and the dialogs
ShowImage(o, files, index) ==
    /\ dialog' = o.dialog
    /\ IF o.shown
       THEN Display(o.image, files[index + 1][2], files[index + 1][3])
       ELSE NoDisplay

\* self.nav_entry_var.set(str(self.current_image_index + 1))
ShowEntry(o, index) ==
    nav_entry_var' = IF o.shown THEN PyStrOfInt(index + 1) ELSE nav_entry_var

ShowAll(o, files, index) == ShowImage(o, files, index) /\ ShowEntry(o, index)

show_current_automated_image(files, index) ==
    ShowAll(ShowOutcome(files, index), files, index)

\* the end of start_automated_processing, the pairs having been found
StartWith(found_pairs) ==
    IF found_pairs = <<>>
    THEN /\ image_files_for_auto' = found_pairs
         /\ dialog' = "No image-label pairs found."
         /\ NoDisplay
         /\ UNCHANGED <<current_image_index, nav_entry_var, nav_enabled>>
    ELSE /\ image_files_for_auto' = found_pairs
         /\ current_image_index' = 0
         /\ nav_enabled' = TRUE
         /\ show_current_automated_image(found_pairs, 0)

\* the sorted image paths of the folder
ImagePaths(folder) == Sorted({n \in folder.listing : IsImageName(n)})

start_automated_processing ==
    /\ NoSave
    /\ IF auto_folder_path = "" \/ ~FolderOnDisk(auto_folder_path).isdir
       THEN /\ dialog' = "Please select a valid root folder."
            /\ NoDisplay
            /\ UNCHANGED navVars
       ELSE StartWith(FoundPairs(ImagePaths(FolderOnDisk(auto_folder_path)),
                                 FolderOnDisk(auto_folder_path).labels,
                                 load_yolo_classes(FolderOnDisk(auto_folder_path).classes)))
    /\ UNCHANGED <<pathVars, drawVars, timerVars, canvas_size, current_mode>>

\* a slip: the step taken without looking at the ends of the list
StepUnbounded(index, step, len) == index + step

\* the step of show_next_image (+1) and show_previous_image (-1)
Step(index, step, len) ==
    IF step = 1 THEN (IF index < len - 1 THEN index + 1 ELSE index)
    ELSE (IF index > 0 THEN index - 1 ELSE index)

ShowStepTo(target) ==
    /\ nav_enabled
    /\ NoSave
    /\ IF target /= current_image_index
       THEN /\ current_image_index' = target
            /\ show_current_automated_image(image_files_for_auto, target)
       ELSE /\ dialog' = ""
            /\ NoDisplay
            /\ UNCHANGED <<current_image_index, nav_entry_var>>
    /\ UNCHANGED <<image_files_for_auto, nav_enabled, pathVars, drawVars, timerVars,
                   canvas_size, current_mode>>

show_next_image ==
    ShowStepTo(Step(current_image_index, 1, Len(image_files_for_auto)))

show_previous_image ==
    ShowStepTo(Step(current_image_index, -1, Len(image_files_for_auto)))

\* a slip: the target taken without the range test
InRangeUnchecked(target_index, len) == TRUE

\* 0 <= target_index < len(self.image_files_for_auto)
InRange(target_index, len) == 0 <= target_index /\ target_index < len

\* the try block of go_to_image, parsed being what int(entry) gave
GoTo(parsed) ==
    IF parsed.exc /= ""
    THEN /\ dialog' = "Invalid Input"
         /\ NoDisplay
         /\ UNCHANGED current_image_index
    ELSE IF ~InRange(parsed.v - 1, Len(image_files_for_auto))
    THEN /\ dialog' = "Invalid Number"
         /\ NoDisplay
         /\ UNCHANGED current_image_index
    ELSE IF current_image_index /= parsed.v - 1
    THEN /\ current_image_index' = parsed.v - 1
         /\ ShowImage(ShowOutcome(image_files_for_auto, parsed.v - 1),
                      image_files_for_auto, parsed.v - 1)
    ELSE /\ dialog' = ""
         /\ NoDisplay
         /\ UNCHANGED current_image_index

\* go_to_image, the entry holding text when Go (or Return) is pressed
go_to_image(text) ==
    /\ nav_enabled
    /\ NoSave
    /\ IF image_files_for_auto = <<>>
       THEN /\ dialog' = ""
            /\ nav_entry_var' = text
            /\ NoDisplay
            /\ UNCHANGED current_image_index
       ELSE /\ GoTo(PyIntOfStr(text))
            \* finally: self.nav_entry_var.set(str(self.current_image_index + 1))
            /\ nav_entry_var' = PyStrOfInt(current_image_index' + 1)
    /\ UNCHANGED <<image_files_for_auto, nav_enabled, pathVars, drawVars, timerVars,
                   canvas_size, current_mode>>

(***************************************************************************)
(* Modes, pan and zoom                                                     *)
(***************************************************************************)
Modes == {"pan", "draw", "erase"}

set_mode(mode) ==
    /\ Quiet
    /\ current_mode' = mode
    /\ UNCHANGED <<viewVars, imageVars, pathVars, navVars, drawVars, timerVars,
                   canvas_size, drawings_on_canvas>>

\* button 2 always pans, button 1 in mode "pan" (setup_canvas_bindings)
start_pan ==
    /\ Quiet
    /\ UNCHANGED <<viewVars, imageVars, pathVars, navVars, drawVars, timerVars,
                   canvas_size, drawings_on_canvas, current_mode>>

\* scan_dragto moves the view to origin, kept inside the scrollregion when
\* one is set
pan_image(origin) ==
    /\ Quiet
    /\ scroll_origin' =
          IF scroll_region = <<0, 0>> THEN origin
          ELSE <<Confine(origin[1], canvas_size[1], scroll_region[1]),
                 Confine(origin[2], canvas_size[2], scroll_region[2])>>
    /\ UNCHANGED <<zoom_level, image_x_offset, image_y_offset, scroll_region, fit_zoom,
                   zoom_ins, zoom_outs, imageVars, pathVars, navVars, drawVars,
                   timerVars, canvas_size, drawings_on_canvas, current_mode>>

\* 1.1
ZoomInFactor == FDec(11, 10)

\* a slip: zooming out by 0.9
ZoomOutFactorNine == FDec(9, 10)

\* 1/1.1
ZoomOutFactor == FDiv(FOne, FDec(11, 10))

\* on_mouse_wheel_zoom(event); in: event.delta > 0 or event.num == 4
on_mouse_wheel_zoom(in) ==
    LET zoom_factor == IF in THEN ZoomInFactor ELSE ZoomOutFactor
    IN  /\ Quiet
        /\ IF ~original_image_pil.loaded
           THEN UNCHANGED viewVars
           ELSE /\ SetView(redraw_canvas(original_image_pil, canvas_size,
                                         [CurView EXCEPT !.zoom = FMul(zoom_level, zoom_factor)]))
                /\ zoom_ins' = IF in THEN zoom_ins + 1 ELSE zoom_ins
                /\ zoom_outs' = IF in THEN zoom_outs ELSE zoom_outs + 1
                /\ UNCHANGED fit_zoom
        /\ UNCHANGED <<imageVars, pathVars, navVars, drawVars, timerVars, canvas_size,
                       drawings_on_canvas, current_mode>>

(***************************************************************************)
(* Drawing and erasing                                                     *)
(***************************************************************************)
\* a slip: the offset not taken off
canvas_to_image_coords_unshifted(event, v) ==
    << FDiv(FFromInt(event[1] + v.origin[1]), v.zoom),
       FDiv(FFromInt(event[2] + v.origin[2]), v.zoom) >>

\* _canvas_to_image_coords(canvas_x, canvas_y)
canvas_to_image_coords(event, v) ==
    << FDiv(FSub(FFromInt(event[1] + v.origin[1]), v.x), v.zoom),
       FDiv(FSub(FFromInt(event[2] + v.origin[2]), v.y), v.zoom) >>

\* redraw_canvas: scaled_coords = c * zoom_level; offset_coords adds the
\* x offset on even indices and the y offset on odd ones
offset_coords(point, v) ==
    << FAdd(FMul(point[1], v.zoom), v.x), FAdd(FMul(point[2], v.zoom), v.y) >>

\* redraw_canvas() as a handler calls it
Redraw == SetView(redraw_canvas(original_image_pil, canvas_size, CurView))

start_draw(event) ==
    /\ current_mode = "draw"
    /\ Quiet
    /\ IF ~original_image_pil.loaded
       THEN UNCHANGED <<drawVars, stale_stroke>>
       ELSE /\ drawing_active' = TRUE
            /\ current_drawing_coords_unscaled' = canvas_to_image_coords(event, CurView)
            /\ stale_stroke' = FALSE
    /\ UNCHANGED <<viewVars, original_image_pil, shown_from, pathVars, navVars, timerVars,
                   canvas_size, drawings_on_canvas, current_mode>>

do_draw(event) ==
    /\ current_mode = "draw"
    /\ Quiet
    /\ IF ~drawing_active
       THEN UNCHANGED <<current_drawing_coords_unscaled, viewVars>>
       ELSE /\ current_drawing_coords_unscaled' =
                  current_drawing_coords_unscaled \o canvas_to_image_coords(event, CurView)
            /\ Redraw
            /\ UNCHANGED <<fit_zoom, zoom_ins, zoom_outs>>
    /\ UNCHANGED <<drawing_active, imageVars, pathVars, navVars, timerVars, canvas_size,
                   drawings_on_canvas, current_mode>>

end_draw ==
    /\ current_mode = "draw"
    /\ Quiet
    /\ IF ~drawing_active
       THEN UNCHANGED <<drawVars, drawings_on_canvas, viewVars, stale_stroke>>
       ELSE /\ drawings_on_canvas' =
                  Append(drawings_on_canvas, current_drawing_coords_unscaled)
            /\ drawing_active' = FALSE
            /\ stale_stroke' = FALSE
            \* the list just appended is not read again: start_draw replaces it
            \* before do_draw or end_draw can run, so the state does not keep it
            /\ current_drawing_coords_unscaled' = <<>>
            /\ Redraw
            /\ UNCHANGED <<fit_zoom, zoom_ins, zoom_outs>>
    /\ UNCHANGED <<original_image_pil, shown_from, pathVars, navVars, timerVars,
                   canvas_size, current_mode>>

\* a slip: the tolerance not scaled by the zoom
ToleranceUnscaled(zoom) == FFromInt(5)

\* tolerance = 5 / self.zoom_level
Tolerance(zoom) == FDiv(FFromInt(5), zoom)

\* abs(drawing[0][i] - erase_x) < tolerance and abs(drawing[0][i+1] - erase_y) < tolerance
CloseTo(coords, i, at, tolerance) ==
    /\ FLt(FAbs(FSub(coords[i], at[1])), tolerance)
    /\ FLt(FAbs(FSub(coords[i + 1], at[2])), tolerance)

\* the list comprehension of do_erase: the drawings with no point close to at
Unerased(drawings, at, tolerance) ==
    SelectSeq(drawings,
              LAMBDA coords :
                  ~\E k \in 1..(Len(coords) \div 2) : CloseTo(coords, 2 * k - 1, at, tolerance))

\* the end of do_erase, kept being the filtered list
EraseTo(at, kept) ==
    /\ erase_log' = [erased |-> TRUE, at |-> at, before |-> drawings_on_canvas]
    /\ drawings_on_canvas' = kept
    /\ IF Len(kept) < Len(drawings_on_canvas)
       THEN Redraw /\ UNCHANGED <<fit_zoom, zoom_ins, zoom_outs>>
       ELSE UNCHANGED viewVars

EraseAt(at) == EraseTo(at, Unerased(drawings_on_canvas, at, Tolerance(zoom_level)))

do_erase(event) ==
    /\ current_mode = "erase"
    /\ saved_file' = NoFile
    /\ dialog' = ""
    /\ IF ~original_image_pil.loaded
       THEN /\ erase_log' = NoErase
            /\ UNCHANGED <<drawings_on_canvas, viewVars>>
       ELSE EraseAt(canvas_to_image_coords(event, CurView))
    /\ UNCHANGED <<imageVars, pathVars, navVars, drawVars, timerVars, canvas_size,
                   current_mode>>

(***************************************************************************)
(* Saving                                                                  *)
(***************************************************************************)
\* a slip: the copy taken of the image as it is on disk, without the boxes
CopyOfDiskImage(img) == [img EXCEPT !.overlays = <<>>]

\* self.original_image_pil.copy()
CopyOfImage(img) == img

\* draw.line(coords, fill="blue", width=2) for each drawing
BurnedLines(drawings) == drawings

save_current_image(file_path) ==
    /\ erase_log' = NoErase
    /\ IF ~original_image_pil.loaded
       THEN dialog' = "No image loaded to save." /\ saved_file' = NoFile
       ELSE IF file_path = ""
       THEN dialog' = "" /\ saved_file' = NoFile
       ELSE /\ dialog' = ""
            /\ saved_file' = [written |-> TRUE,
                              image   |-> CopyOfImage(original_image_pil),
                              lines   |-> BurnedLines(drawings_on_canvas)]
    /\ UNCHANGED <<viewVars, imageVars, pathVars, navVars, drawVars, timerVars,
                   canvas_size, drawings_on_canvas, current_mode>>

(***************************************************************************)
(* Timers: root.after, root.after_cancel, the resize debounce              *)
(***************************************************************************)
\* root.after(50, ...)
AfterMs == 50
\* the step by which time advances
TickMs == 50

TimerIds == {t.id : t \in timers}

\* the id root.after returns: one that no pending timer has and that _after_id
\* does not hold (Tk never gives an id twice)
NewId(pending) ==
    CHOOSE i \in 1..(Cardinality(pending) + 2) :
        /\ i \notin {t.id : t \in pending} \cup {after_id}
        /\ \A j \in 1..(i - 1) : j \in {t.id : t \in pending} \cup {after_id}

\* root.after(50, self.fit_image_to_canvas)
After(pending, source) ==
    pending \cup {[id |-> NewId(pending), left |-> AfterMs, source |-> source]}

\* a slip: the previous timer left pending
after_cancel_nothing(pending, id) == pending

\* root.after_cancel(id)
after_cancel(pending, id) == {t \in pending : t.id /= id}

ConfigureTimers == {t \in timers : t.source = "on_canvas_configure"}

\* on_canvas_configure(event), the canvas having taken the size of the event
on_canvas_configure(size) ==
    LET pending == IF after_id /= 0 THEN after_cancel(timers, after_id) ELSE timers
    IN  /\ Quiet
        /\ canvas_size' = size
        /\ timers' = After(pending, "on_canvas_configure")
        /\ after_id' = NewId(pending)
        /\ burst' = burst + 1
        /\ UNCHANGED <<is_fullscreen, viewVars, imageVars, pathVars, navVars, drawVars,
                       drawings_on_canvas, current_mode>>

\* toggle_fullscreen (F11, and Escape through exit_fullscreen)
toggle_fullscreen ==
    /\ Quiet
    /\ is_fullscreen' = ~is_fullscreen
    /\ timers' = After(timers, "toggle_fullscreen")
    /\ UNCHANGED <<after_id, burst, canvas_size, viewVars, imageVars, pathVars, navVars,
                   drawVars, drawings_on_canvas, current_mode>>

exit_fullscreen ==
    /\ is_fullscreen
    /\ toggle_fullscreen

\* time passes while timers are pending
Tick ==
    /\ \E t \in timers : t.left > 0
    /\ timers' = {[t EXCEPT !.left = Max(0, t.left - TickMs)] : t \in timers}
    /\ UNCHANGED <<after_id, burst, is_fullscreen, canvas_size, viewVars, imageVars,
                   pathVars, navVars, drawVars, drawings_on_canvas, current_mode,
                   saved_file, dialog, erase_log>>

\* a timer that is due runs its callback, fit_image_to_canvas
FireTimer(t) ==
    /\ t \in timers
    /\ t.left = 0
    /\ Quiet
    /\ timers' = timers \ {t}
    /\ burst' = IF t.source = "on_canvas_configure" THEN 0 ELSE burst
    /\ DoFit(original_image_pil)
    /\ UNCHANGED <<after_id, is_fullscreen, canvas_size, imageVars, pathVars, navVars,
                   drawVars, drawings_on_canvas, current_mode>>

(***************************************************************************)
(* Specifications                                                          *)
(***************************************************************************)
\* the viewer does not run while parse_annotations is examined on its own,
\* and the other way round
ParseIdle ==
    /\ pc = "idle"
    /\ annotation_file = File("", "missing", TRUE, <<>>)
    /\ image_size = <<0, 0>>
    /\ class_names = <<>>
    /\ result = NoResult

NoParse == UNCHANGED pvars
NoGui == UNCHANGED gvars

ParseNext == CallParse /\ NoGui
\* a call of parse_annotations, the viewer not constructed around it
ParseStart == GuiInit /\ ParseInit
SpecParse == ParseStart /\ [][ParseNext]_vars

MaxBurst == 2
MaxTimers == 2
MaxZoomSteps == 4
MaxStrokes == 2
MaxPoints == 2

CanvasSizes == {<<200, 150>>, <<120, 160>>}
PanOrigins == {<<0, 0>>, <<20, 0>>}
PressEvents == {<<100, 75>>}
DrawEvents == {<<160, 75>>}
EraseEvents == {<<103, 75>>, <<106, 75>>, <<158, 75>>}
EntryTexts == {Num(0, 1), Num(2, 1), Num(3, 1), Num(4, 1), Num(15, 10), BadTok}

GuiInitIdle == ParseIdle /\ GuiInit

\* resizing: the debounce of <Configure>, full screen, the timers
ResizeNext ==
    \/ \E file_path \in {<<"a", ".png">>} : browse_file("image", file_path) /\ NoParse
    \/ \E file_path \in {<<"a", ".txt">>} : browse_file("label", file_path) /\ NoParse
    \/ process_single_image /\ NoParse
    \/ \E size \in CanvasSizes :
          burst < MaxBurst /\ on_canvas_configure(size) /\ NoParse
    \/ Cardinality(timers) < MaxTimers /\ ~is_fullscreen /\ toggle_fullscreen /\ NoParse
    \/ Cardinality(timers) < MaxTimers /\ exit_fullscreen /\ NoParse
    \/ Tick /\ NoParse
    \/ \E t \in timers : FireTimer(t) /\ NoParse

SpecResize == GuiInitIdle /\ [][ResizeNext]_vars

\* zooming and panning an image
ZoomNext ==
    \/ \E file_path \in {<<"a", ".png">>} : browse_file("image", file_path) /\ NoParse
    \/ \E file_path \in {<<"a", ".txt">>} : browse_file("label", file_path) /\ NoParse
    \/ process_single_image /\ NoParse
    \/ \E size \in CanvasSizes :
          burst < 1 /\ on_canvas_configure(size) /\ NoParse
    \/ Tick /\ NoParse
    \/ \E t \in timers : FireTimer(t) /\ NoParse
    \/ \E in \in BOOLEAN :
          zoom_ins + zoom_outs < MaxZoomSteps /\ on_mouse_wheel_zoom(in) /\ NoParse
    \/ start_pan /\ NoParse
    \/ \E origin \in PanOrigins : pan_image(origin) /\ NoParse

SpecZoom == GuiInitIdle /\ [][ZoomNext]_vars

\* drawing, erasing and saving on a displayed image
\* (the window is laid out before the user picks a file)
DrawNext ==
    \/ \E file_path \in {<<"a", ".png">>} :
          canvas_size /= <<1, 1>> /\ timers = {} /\ browse_file("image", file_path) /\ NoParse
    \/ \E file_path \in {<<"a", ".txt">>} : browse_file("label", file_path) /\ NoParse
    \/ process_single_image /\ NoParse
    \/ \E size \in {<<200, 150>>} :
          burst < 1 /\ after_id = 0 /\ on_canvas_configure(size) /\ NoParse
    \/ Tick /\ NoParse
    \/ \E t \in timers : FireTimer(t) /\ NoParse
    \/ \E mode \in {"draw", "erase"} : current_mode /= mode /\ set_mode(mode) /\ NoParse
    \/ \E event \in PressEvents :
          Len(drawings_on_canvas) < MaxStrokes /\ start_draw(event) /\ NoParse
    \/ \E event \in DrawEvents :
          Len(current_drawing_coords_unscaled) < 2 * MaxPoints /\ do_draw(event) /\ NoParse
    \/ Len(drawings_on_canvas) < MaxStrokes /\ end_draw /\ NoParse
    \/ \E event \in EraseEvents : do_erase(event) /\ NoParse
    \/ \E file_path \in {"", "out.png"} : save_current_image(file_path) /\ NoParse
    \/ \E folder_path \in {"setA"} :
          canvas_size /= <<1, 1>> /\ timers = {} /\ browse_auto_folder(folder_path) /\ NoParse
    \/ start_automated_processing /\ NoParse

SpecDraw == GuiInitIdle /\ [][DrawNext]_vars

\* automated mode: the folder, the list of pairs, the navigation
\* (the window is laid out before the user picks a folder)
NavNext ==
    \/ \E folder_path \in {"", "setA", "setB", "setC"} :
          canvas_size /= <<1, 1>> /\ timers = {} /\ browse_auto_folder(folder_path) /\ NoParse
    \/ start_automated_processing /\ NoParse
    \/ show_next_image /\ NoParse
    \/ show_previous_image /\ NoParse
    \/ \E text \in EntryTexts : go_to_image(text) /\ NoParse
    \/ \E size \in {<<200, 150>>} :
          burst < 1 /\ after_id = 0 /\ on_canvas_configure(size) /\ NoParse
    \/ Tick /\ NoParse
    \/ \E t \in timers : FireTimer(t) /\ NoParse
    \/ \E mode \in {"draw"} : current_mode /= mode /\ set_mode(mode) /\ NoParse
    \/ \E event \in {<<100, 75>>} :
          Len(drawings_on_canvas) < 1 /\ start_draw(event) /\ NoParse
    \/ Len(drawings_on_canvas) < 1 /\ end_draw /\ NoParse

SpecNav == GuiInitIdle /\ [][NavNext]_vars

(***************************************************************************)
(* Erasing (SpecDraw)                                                      *)
(***************************************************************************)
\* the point k of a stroke lies within 5/zoom of the point at, on both axes
Near(coords, k, at, zoom) ==
    /\ FLt(FAbs(FSub(coords[2 * k - 1], at[1])), FDiv(FFromInt(5), zoom))
    /\ FLt(FAbs(FSub(coords[2 * k], at[2])), FDiv(FFromInt(5), zoom))

Points(coords) == 1..(Len(coords) \div 2)

HasNearPoint(coords, at, zoom) == \E k \in Points(coords) : Near(coords, k, at, zoom)

\* the point k of coords is a point of some stroke of the list
PointKept(coords, k, drawings) ==
    \E i \in 1..Len(drawings) : \E j \in Points(drawings[i]) :
        /\ drawings[i][2 * j - 1] = coords[2 * k - 1]
        /\ drawings[i][2 * j] = coords[2 * k]

\* C4, as stated: after do_erase at image point E with zoom level z, every
\* stored point that is not within 5/z of E on both axes is still in the
\* stroke list.
C4_PointsOutsideToleranceSurvive ==
    erase_log.erased =>
        \A i \in 1..Len(erase_log.before) : \A k \in Points(erase_log.before[i]) :
            ~Near(erase_log.before[i], k, erase_log.at, zoom_level)
                => PointKept(erase_log.before[i], k, drawings_on_canvas)

\* C4, corrected: do_erase at image point E with zoom level z removes exactly
\* the strokes that have at least one point within 5/z of E on both axes,
\* each of them whole; the strokes with no such point remain, in their order.
C4_StrokesWithANearPointGo ==
    erase_log.erased =>
        drawings_on_canvas =
            SelectSeq(erase_log.before,
                      LAMBDA coords : ~HasNearPoint(coords, erase_log.at, zoom_level))

\* an erase that removed a stroke having a point within the tolerance and a
\* point outside it
C4_Witness ==
    /\ erase_log.erased
    /\ Len(drawings_on_canvas) < Len(erase_log.before)
    /\ \E i \in 1..Len(erase_log.before) :
          /\ HasNearPoint(erase_log.before[i], erase_log.at, zoom_level)
          /\ \E k \in Points(erase_log.before[i]) :
                ~Near(erase_log.before[i], k, erase_log.at, zoom_level)

(***************************************************************************)
(* Saving (SpecDraw)                                                       *)
(***************************************************************************)
\* the boxes parse_annotations gives for the annotation file of the image
\* on display
ShownAnnotations ==
    parse_annotations(LabelOnDisk(shown_from.label), original_image_pil.size[1],
                      original_image_pil.size[2], shown_from.class_names).annotations

\* C5, as stated: the file written by save_current_image, for an image loaded
\* with a non-empty annotation file, contains every stroke of the stroke list
\* and none of the box/label overlays.
C5_SavedWithoutBoxes ==
    (saved_file.written /\ ShownAnnotations /= <<>>) =>
        /\ saved_file.lines = drawings_on_canvas
        /\ saved_file.image.overlays = <<>>

\* C5, corrected: the file written by save_current_image contains every
\* stroke of the stroke list and, the image kept for display being the
\* annotated one, the box and label overlay of every parsed annotation.
C5_SavedWithStrokesAndBoxes ==
    saved_file.written =>
        /\ saved_file.lines = drawings_on_canvas
        /\ saved_file.image.path = original_image_pil.path
        /\ saved_file.image.overlays = Overlays(ShownAnnotations)

\* a file saved with a stroke and a box in it
C5_Witness ==
    /\ saved_file.written
    /\ saved_file.lines /= <<>>
    /\ ShownAnnotations /= <<>>
    /\ saved_file.image.overlays /= <<>>

(***************************************************************************)
(* The resize debounce (SpecResize)                                        *)
(***************************************************************************)
\* C8: while <Configure> events have arrived since a resize timer last fired,
\* exactly one timer scheduled by on_canvas_configure is pending, the one
\* _after_id holds, set by the last event and due AfterMs after it or
\* sooner; once it has fired none is pending: a burst of events gives one
\* call of fit_image_to_canvas.
C8_OneResizeTimer ==
    /\ Cardinality(ConfigureTimers) = IF burst > 0 THEN 1 ELSE 0
    /\ \A t \in ConfigureTimers : t.id = after_id /\ t.left <= AfterMs

\* two <Configure> events in a row, an image being loaded, one timer pending
C8_Witness ==
    /\ burst >= 2
    /\ original_image_pil.loaded
    /\ Cardinality(ConfigureTimers) = 1

(***************************************************************************)
(* Navigation (SpecNav)                                                    *)
(***************************************************************************)
\* the entry is not an integer numeral, or is outside 1..len
InvalidEntry(text) ==
    \/ text.k /= "num"
    \/ text.scale /= 1
    \/ text.n < 1
    \/ text.n > Len(image_files_for_auto)

\* C9: a call of go_to_image with an entry that is not an integer or is
\* outside 1..len(image_files_for_auto) leaves current_image_index, the
\* displayed image, the stroke list, the zoom level and the offsets as they
\* were.
C9_InvalidEntryChangesNothing ==
    [][\A text \in EntryTexts :
          (go_to_image(text) /\ InvalidEntry(text)) =>
              UNCHANGED <<current_image_index, original_image_pil, drawings_on_canvas,
                          zoom_level, image_x_offset, image_y_offset>>]_vars

\* an invalid entry was reported while an image with a stroke was on display
C9_Witness ==
    /\ dialog \in {"Invalid Number", "Invalid Input"}
    /\ original_image_pil.loaded
    /\ drawings_on_canvas /= <<>>
    /\ current_image_index > 0

(***************************************************************************)
(* Zoom stepping (SpecZoom)                                                *)
(***************************************************************************)
RECURSIVE BPow(_, _)
BPow(base, n) == IF n = 0 THEN <<1>> ELSE BMulLimb(BPow(base, n - 1), base)

BAbsDiff(a, b) == IF BCmp(a, b) >= 0 THEN BSub(a, b) ELSE BSub(b, a)

\* |a - b| <= steps * b / 2^51: a is b to a relative error of at most
\* 2^-51 a step (a step is one rounded product by the rounded factor 1.1, or
\* by the rounded quotient 1/1.1: at most three roundings of 2^-53 each)
BWithin(a, b, steps) == BCmp(BShl(BAbsDiff(a, b), 51), BMulLimb(b, steps)) <= 0

\* z = z0 * (11/10)^(ins - outs) within that tolerance, for floats z, z0 > 0:
\* z * 10^ins * 11^outs against z0 * 11^ins * 10^outs, both scaled by 2^-e
ZoomSteppedAt(z, z0, ins, outs, e) ==
    BWithin(BMul(BShl(z.man, z.exp - e), BMul(BPow(10, ins), BPow(11, outs))),
            BMul(BShl(z0.man, z0.exp - e), BMul(BPow(11, ins), BPow(10, outs))),
            ins + outs)

ZoomStepped(z, z0, ins, outs) ==
    ZoomSteppedAt(z, z0, ins, outs, IF z.exp < z0.exp THEN z.exp ELSE z0.exp)

\* C10, as stated: starting from zoom level z0 with an image loaded and no
\* fit_image_to_canvas in between, N zoom-ins leave zoom_level at z0 * 1.1^N
\* (read here up to rounding), and a zoom-out is the exact inverse of a
\* zoom-in: as many zoom-ins as zoom-outs return zoom_level to z0.
C10_BalancedZoomRestores ==
    original_image_pil.loaded =>
        /\ zoom_outs = 0 => ZoomStepped(zoom_level, fit_zoom, zoom_ins, 0)
        /\ zoom_ins = zoom_outs => zoom_level = fit_zoom

\* C10, corrected: with an image loaded, after zoom_ins zoom-in and zoom_outs
\* zoom-out gestures since zoom_level was z0, zoom_level is
\* z0 * 1.1^(zoom_ins - zoom_outs) within floating-point tolerance (a
\* relative error of at most 2^-51 a gesture): a zoom-out undoes a zoom-in
\* up to rounding, not exactly.
C10_ZoomSteppedWithinTolerance ==
    original_image_pil.loaded => ZoomStepped(zoom_level, fit_zoom, zoom_ins, zoom_outs)

\* as many zoom-ins as zoom-outs, and zoom_level is not the one it started from
C10_Witness ==
    /\ original_image_pil.loaded
    /\ zoom_ins >= 1
    /\ zoom_ins = zoom_outs
    /\ zoom_level /= fit_zoom

(***************************************************************************)
(* The coordinate mapper (SpecZoom)                                        *)
(***************************************************************************)
\* the pointer positions tried, in window coordinates of the canvas
MapperEvents == {<<0, 0>>, <<100, 75>>, <<119, 149>>}

\* |a - b| <= 1
WithinOnePixel(a, b) == ~FLt(FOne, FAbs(FSub(a, b)))

\* the forward image of the image point _canvas_to_image_coords gives for
\* event, under the current zoom level and offsets
RoundTrip(event) == offset_coords(canvas_to_image_coords(event, CurView), CurView)

\* C11, as stated: for any canvas point P and any reachable zoom_level and
\* offsets, _canvas_to_image_coords followed by the stroke transform of
\* redraw_canvas (times zoom_level, plus the offset) gives P again within 1
\* pixel on each axis (stated for an image displayed in a laid-out window,
\* no resize pending).
C11_RoundTripGivesEventPoint ==
    (original_image_pil.loaded /\ canvas_size /= <<1, 1>> /\ timers = {}) =>
        \A event \in MapperEvents :
            /\ WithinOnePixel(RoundTrip(event)[1], FFromInt(event[1]))
            /\ WithinOnePixel(RoundTrip(event)[2], FFromInt(event[2]))

\* C11, corrected: the round trip gives, within 1 pixel on each axis, the
\* canvas coordinate of P, (canvasx(P.x), canvasy(P.y)): P shifted by the
\* scroll position of the view, and P itself while the view is not scrolled.
C11_RoundTripGivesCanvasPoint ==
    \A event \in MapperEvents :
        /\ WithinOnePixel(RoundTrip(event)[1], FFromInt(event[1] + scroll_origin[1]))
        /\ WithinOnePixel(RoundTrip(event)[2], FFromInt(event[2] + scroll_origin[2]))

\* an image zoomed in past the canvas width, scrolled by pan_image, its
\* height still centered with a non-zero offset
C11_Witness ==
    /\ original_image_pil.loaded
    /\ zoom_ins > zoom_outs
    /\ scroll_origin[1] > 0
    /\ ~FIsZero(image_y_offset)

(***************************************************************************)
(* Offsets follow the zoom level (SpecZoom)                                *)
(***************************************************************************)
\* the size the image is displayed at on one axis: int(img_len * zoom)
ScaledLen(img_len, zoom) == FTrunc(FMul(FFromInt(img_len), zoom))

\* offset is (canvas_len - scaled)/2 when the scaled image is smaller than
\* the viewport, and 0 otherwise
Centered(offset, canvas_len, scaled) ==
    IF scaled < canvas_len
    THEN FCmp(FMul(offset, FTwo), FFromInt(canvas_len - scaled)) = 0
    ELSE FIsZero(offset)

\* both offsets of the next state are the ones its zoom level, image and
\* canvas give
OffsetsFresh ==
    /\ Centered(image_x_offset', canvas_size'[1],
                ScaledLen(original_image_pil'.size[1], zoom_level'))
    /\ Centered(image_y_offset', canvas_size'[2],
                ScaledLen(original_image_pil'.size[2], zoom_level'))

\* a zoom gesture on a loaded image
ZoomGesture == original_image_pil.loaded /\ \E in \in BOOLEAN : on_mouse_wheel_zoom(in)

\* a call of fit_image_to_canvas that completes: from a timer, or from
\* display_image_on_canvas at the end of a successful load
CompletedFit ==
    \/ /\ \E t \in timers : FireTimer(t)
       /\ FitCompletes(original_image_pil, canvas_size)
    \/ /\ process_single_image
       /\ dialog' = ""
       /\ FitCompletes(original_image_pil', canvas_size)

\* C12: with an image loaded, after every zoom gesture and after every
\* completed fit_image_to_canvas, on each axis the offset is
\* (viewport size - scaled image size)/2 when the scaled image is smaller
\* than the viewport and 0 otherwise, the scaled size being the one the
\* current zoom_level and the image size give.
C12_OffsetsNeverStale ==
    [][(ZoomGesture \/ CompletedFit) => OffsetsFresh]_vars

\* after zoom gestures on a loaded image: centered on one axis, 0 on the other
C12_Witness ==
    /\ original_image_pil.loaded
    /\ canvas_size /= <<1, 1>>
    /\ zoom_ins + zoom_outs >= 2
    /\ FIsZero(image_x_offset)
    /\ ~FIsZero(image_y_offset)

(***************************************************************************)
(* The life of the stroke list (SpecStroke)                                *)
(***************************************************************************)
MaxStrokeZooms == 1

\* loading, drawing and erasing, and zooming and panning once a stroke is
\* in the list
StrokeNext ==
    \/ \E file_path \in {<<"a", ".png">>} :
          canvas_size /= <<1, 1>> /\ timers = {} /\ browse_file("image", file_path) /\ NoParse
    \/ \E file_path \in {<<"a", ".txt">>} : browse_file("label", file_path) /\ NoParse
    \/ process_single_image /\ NoParse
    \/ \E size \in {<<200, 150>>} :
          burst < 1 /\ after_id = 0 /\ on_canvas_configure(size) /\ NoParse
    \/ Tick /\ NoParse
    \/ \E t \in timers : FireTimer(t) /\ NoParse
    \/ \E mode \in {"draw", "erase"} : current_mode /= mode /\ set_mode(mode) /\ NoParse
    \/ \E event \in PressEvents :
          Len(drawings_on_canvas) < 1 /\ start_draw(event) /\ NoParse
    \/ \E event \in DrawEvents :
          Len(current_drawing_coords_unscaled) < 4 /\ do_draw(event) /\ NoParse
    \/ Len(drawings_on_canvas) < 1 /\ end_draw /\ NoParse
    \/ \E event \in {<<158, 75>>} : do_erase(event) /\ NoParse
    \/ \E in \in BOOLEAN :
          drawings_on_canvas /= <<>> /\ zoom_ins + zoom_outs < MaxStrokeZooms
              /\ on_mouse_wheel_zoom(in) /\ NoParse
    \/ drawings_on_canvas /= <<>> /\ start_pan /\ NoParse
    \/ \E origin \in {<<20, 0>>} : drawings_on_canvas /= <<>> /\ pan_image(origin) /\ NoParse
    \/ \E folder_path \in {"setA"} :
          canvas_size /= <<1, 1>> /\ timers = {} /\ browse_auto_folder(folder_path) /\ NoParse
    \/ start_automated_processing /\ NoParse

SpecStroke == GuiInitIdle /\ [][StrokeNext]_vars

\* a step of process_single_image that displays the image
ManualLoad ==
    /\ UNCHANGED <<pathVars, navVars, drawVars, timerVars, canvas_size, current_mode>>
    /\ dialog' = ""
    /\ original_image_pil'.loaded
    /\ FitCompletes(original_image_pil', canvas_size) => zoom_ins' + zoom_outs' = 0
    /\ image_path /= NoPath /\ ExistsOnDisk(image_path)
    /\ label_path /= NoPath /\ ExistsOnDisk(label_path)
    /\ LoadOutcome(image_path, label_path, ManualClassNames).image.loaded
    /\ process_single_image

\* a step of start_automated_processing that displays the first image
AutomatedLoad ==
    /\ UNCHANGED <<pathVars, drawVars, timerVars, canvas_size, current_mode>>
    /\ dialog' = ""
    /\ original_image_pil'.loaded
    /\ FitCompletes(original_image_pil', canvas_size) => zoom_ins' + zoom_outs' = 0
    /\ image_files_for_auto' /= <<>>
    /\ current_image_index' = 0
    /\ ShowOutcome(image_files_for_auto', current_image_index').shown
    /\ start_automated_processing

SuccessfulLoad == ManualLoad \/ AutomatedLoad

\* end_draw appending one stroke
StrokeAppended ==
    /\ end_draw
    /\ \E coords \in {current_drawing_coords_unscaled} :
          drawings_on_canvas' = Append(drawings_on_canvas, coords)

\* do_erase leaving a shorter list
StrokesErased ==
    /\ Len(drawings_on_canvas') < Len(drawings_on_canvas)
    /\ UNCHANGED <<pathVars, navVars, drawVars, timerVars, canvas_size, current_mode>>
    /\ \E event \in EraseEvents : do_erase(event)

\* a pan or a zoom event
PanOrZoom ==
    /\ UNCHANGED <<pathVars, navVars, drawVars, timerVars, canvas_size, current_mode>>
    /\ \/ start_pan
       \/ \E origin \in PanOrigins : pan_image(origin)
       \/ /\ original_image_pil.loaded => zoom_ins' + zoom_outs' = zoom_ins + zoom_outs + 1
          /\ \E in \in BOOLEAN : on_mouse_wheel_zoom(in)

\* browse_file or browse_auto_folder, a path having been chosen
PathChosen ==
    \/ \E var \in {"image", "label", "classes"} :
          \E file_path \in BrowseChoices(var) \ {NoPath} : browse_file(var, file_path)
    \/ \E folder_path \in {"setA", "setB"} : browse_auto_folder(folder_path)

\* C13, as stated: right after every successful image load the stroke list
\* is empty; between loads the list grows only by end_draw appending one
\* stroke and shrinks only by do_erase; pan and zoom events leave it
\* unchanged.
C13_StrokesChangeOnlyByLoadDrawErase ==
    [][/\ drawings_on_canvas' /= <<>> => ~SuccessfulLoad
       /\ drawings_on_canvas' /= drawings_on_canvas => ~PanOrZoom
       /\ (drawings_on_canvas' /= drawings_on_canvas /\ ~SuccessfulLoad) =>
             IF Len(drawings_on_canvas') > Len(drawings_on_canvas)
             THEN StrokeAppended
             ELSE StrokesErased]_vars

\* C13, corrected: as stated, except that the list is also emptied, before
\* any load, by browse_file and browse_auto_folder when a path is chosen
\* in their dialog.
C13_StrokesAlsoClearedByBrowse ==
    [][/\ drawings_on_canvas' /= <<>> => ~SuccessfulLoad
       /\ drawings_on_canvas' /= drawings_on_canvas => ~PanOrZoom
       /\ (drawings_on_canvas' /= drawings_on_canvas /\ ~SuccessfulLoad) =>
             IF Len(drawings_on_canvas') > Len(drawings_on_canvas)
             THEN StrokeAppended
             ELSE StrokesErased \/ (PathChosen /\ drawings_on_canvas' = <<>>)]_vars

\* after a load from a folder: a stroke of two points drawn on the image,
\* still in the list after a zoom gesture and a pan
C13_Witness ==
    /\ original_image_pil.loaded
    /\ image_files_for_auto /= <<>>
    /\ Len(drawings_on_canvas) = 1
    /\ Len(drawings_on_canvas[1]) = 4
    /\ zoom_ins + zoom_outs = 1
    /\ scroll_origin[1] > 0

(***************************************************************************)
(* The index into the list of pairs (SpecNav)                              *)
(***************************************************************************)
\* C14: after any sequence of start_automated_processing, show_next_image,
\* show_previous_image and go_to_image calls, whenever image_files_for_auto
\* is non-empty 0 <= current_image_index < len(image_files_for_auto), and
\* show_current_automated_image has not indexed outside the list.
C14_IndexInsideList ==
    /\ image_files_for_auto /= <<>> =>
          (0 <= current_image_index /\ current_image_index < Len(image_files_for_auto))
    /\ dialog /= "IndexError"

\* navigation has reached the last pair of a list of several
C14_Witness ==
    /\ Len(image_files_for_auto) >= 2
    /\ current_image_index = Len(image_files_for_auto) - 1
    /\ original_image_pil.loaded
    /\ nav_enabled

(***************************************************************************)
(* Strokes and the image they were drawn on (SpecNav)                      *)
(***************************************************************************)
\* C15: under any interleaving of pointer events, mode changes and image
\* loads, a stroke begun by start_draw before a new image is loaded
\* (drawing_active still true) is never appended by end_draw to the stroke
\* list of the newly loaded image.
C15_NoStrokeCarriedOverLoad ==
    [][(drawing_active /\ stale_stroke) =>
          ~(end_draw /\ Len(drawings_on_canvas') > Len(drawings_on_canvas))]_vars

=============================================================================
